---------------------------- MODULE Spec2Model ----------------------------
(***************************************************************************)
(* A model of splitmerge.py: discovery of safetensors shard files in a     *)
(* folder, their validation (count, numbering, Git LFS pointers), and the  *)
(* merge of the validated shards into merged/<folder>.safetensors.         *)
(*                                                                         *)
(* A file name is a sequence of tokens (literal pieces and runs of decimal *)
(* digits); a file's bytes are seen twice, as the text the LFS check reads *)
(* (a sequence of byte tokens) and as the container safe_open parses.      *)
(***************************************************************************)
EXTENDS Integers, Sequences, FiniteSets, TLC

(***************************************************************************)
(* Bounds of the model.                                                    *)
(***************************************************************************)
\* largest declared shard total of the canonical names
MaxTotal == 3
\* most entries in a folder of canonically named files
MaxFiles == 3
\* most entries in a folder that mixes name forms, their largest shard number
\* and their declared total
MaxVar == 2
\* most byte tokens in the text of a file
MaxToks == 4

(***************************************************************************)
(* Program constants.                                                      *)
(***************************************************************************)
\* is_lfs_pointer: st_size > 200
LfsMaxSize == 200
\* len('git-lfs.github.com')
MarkerLen == 18

(***************************************************************************)
(* File names.                                                             *)
(***************************************************************************)
Lit(s) == [t |-> s, val |-> 0, width |-> 0]
\* the decimal string of `w` characters, zero padded, whose value is v
Digits(v, w) == [t |-> "digits", val |-> v, width |-> w]

IsDigits(tok) == tok.t = "digits" /\ tok.width >= 1

\* folder_path.glob('*.safetensors'): the name ends with the extension
Glob(name) == Len(name) >= 1 /\ name[Len(name)] = Lit(".safetensors")

\* re.compile(r'model-(\d+)-of-(\d+)\.safetensors').match(name): anchored at
\* the start of the name only, digit runs of any length
PatternMatch(name) ==
    /\ Len(name) >= 5
    /\ name[1] = Lit("model-")
    /\ IsDigits(name[2])
    /\ name[3] = Lit("-of-")
    /\ IsDigits(name[4])
    /\ name[5] = Lit(".safetensors")

\* int(match.group(1)), int(match.group(2))
ShardNum(name) == name[2].val
TotalShards(name) == name[4].val

\* validate_shards: re.search(r'model-(\d+)-of-\d+\.safetensors', name): the
\* leftmost place of the name where the pattern matches, if any
SearchAt(name) ==
    {k \in 1..Len(name) :
        /\ k + 4 <= Len(name)
        /\ name[k] = Lit("model-")
        /\ IsDigits(name[k + 1])
        /\ name[k + 2] = Lit("-of-")
        /\ IsDigits(name[k + 3])
        /\ name[k + 4] = Lit(".safetensors")}

SearchMatches(name) == SearchAt(name) # {}

SearchShardNum(name) ==
    LET k == CHOOSE k \in SearchAt(name) : \A j \in SearchAt(name) : k <= j
    IN  name[k + 1].val

(***************************************************************************)
(* The text of a file, as is_lfs_pointer reads it.                         *)
(***************************************************************************)
\* MARK: the substring 'git-lfs.github.com'; NL: a newline; TXT: one other
\* character; BLOCK: a run of 91 other characters; BAD: a byte that is not
\* valid UTF-8
ByteToks == {"MARK", "NL", "TXT", "BLOCK", "BAD"}

TokSize(tok) ==
    CASE tok = "MARK" -> MarkerLen
      [] tok = "BLOCK" -> 91
      [] OTHER -> 1

RECURSIVE StSize(_)
\* file_path.stat().st_size
StSize(toks) == IF toks = <<>> THEN 0 ELSE TokSize(Head(toks)) + StSize(Tail(toks))

\* open(..., encoding='utf-8'): the whole (small) file is decoded with the
\* first readline, so an invalid byte anywhere raises UnicodeDecodeError
Decodable(toks) == \A k \in 1..Len(toks) : toks[k] # "BAD"

RECURSIVE ReadLine(_)
\* f.readline(): the text up to and including the first newline
ReadLine(toks) ==
    IF toks = <<>> THEN <<>>
    ELSE IF Head(toks) = "NL" THEN <<"NL">>
    ELSE <<Head(toks)>> \o ReadLine(Tail(toks))

\* 'git-lfs.github.com' in first_line
HasMarker(line) == \E k \in 1..Len(line) : line[k] = "MARK"

\* is_lfs_pointer with the 200-byte file taken for real data
IsLfsPointerStrictSize(f) ==
    IF StSize(f.toks) >= LfsMaxSize THEN FALSE
    ELSE IF f.readable /\ Decodable(f.toks) THEN HasMarker(ReadLine(f.toks))
    ELSE FALSE

\* is_lfs_pointer(file_path)
IsLfsPointer(f) ==
    IF StSize(f.toks) > LfsMaxSize THEN FALSE
    ELSE IF f.readable /\ Decodable(f.toks) THEN HasMarker(ReadLine(f.toks))
    ELSE FALSE


(***************************************************************************)
(* Files and printed messages.                                             *)
(***************************************************************************)
\* name: the file name; toks, readable: the bytes as text and whether open()
\* succeeds; container: whether safe_open can parse the bytes; keys, hasMeta:
\* the tensor names of the container and whether it has a metadata block
MkFile(name, toks, readable, container, keys, hasMeta) ==
    [name |-> name, toks |-> toks, readable |-> readable,
     container |-> container, keys |-> keys, hasMeta |-> hasMeta]

\* a printed error: what it is and the values it cites
Msg(kind, a, b, file) == [kind |-> kind, a |-> a, b |-> b, file |-> file]

\* Python's None, and a value that is not None
None == <<>>
Some(x) == <<x>>

(***************************************************************************)
(* get_split_files                                                         *)
(***************************************************************************)
RECURSIVE InsertByNum(_, _)
\* list.sort(key=shard number) is stable: an entry goes behind the entries
\* of the same shard number that were appended before it
InsertByNum(sorted, f) ==
    IF sorted = <<>> THEN <<f>>
    ELSE IF ShardNum(sorted[Len(sorted)].name) <= ShardNum(f.name) THEN Append(sorted, f)
    ELSE Append(InsertByNum(SubSeq(sorted, 1, Len(sorted) - 1), f), sorted[Len(sorted)])

RECURSIVE SortByNum(_)
SortByNum(files) ==
    IF files = <<>> THEN <<>>
    ELSE InsertByNum(SortByNum(SubSeq(files, 1, Len(files) - 1)), files[Len(files)])

\* shard_files.sort(key=lambda x: x[0]); [f[1] for f in shard_files]
SortShards(files) == SortByNum(files)

RECURSIVE ScanLoop(_, _, _, _)
\* the loop over folder_path.glob('*.safetensors'), from entry k of the
\* enumeration on: the early return on a disagreeing total, else the
\* matched files in enumeration order
ScanLoop(order, k, acc, total) ==
    IF k > Len(order) THEN [bad |-> None, files |-> acc, total |-> total]
    ELSE LET f == order[k] IN
         IF ~(Glob(f.name) /\ PatternMatch(f.name))
         THEN ScanLoop(order, k + 1, acc, total)
         ELSE IF total = None
              THEN ScanLoop(order, k + 1, Append(acc, f), Some(TotalShards(f.name)))
         ELSE IF total # Some(TotalShards(f.name))
              THEN [bad |-> Some(Msg("inconsistent", total[1], TotalShards(f.name), f.name)),
                    files |-> <<>>, total |-> None]
         ELSE ScanLoop(order, k + 1, Append(acc, f), total)

\* get_split_files(folder) when the folder's entries are enumerated in
\* `order`: the printed message (if any), the sorted shard list, the total
GetSplitFiles(order) ==
    LET r == ScanLoop(order, 1, <<>>, None) IN
    IF r.bad # None THEN [printed |-> r.bad, files |-> <<>>, total |-> None]
    ELSE IF r.files = <<>> THEN [printed |-> <<>>, files |-> <<>>, total |-> None]
    ELSE [printed |-> <<>>, files |-> SortShards(r.files), total |-> r.total]

(***************************************************************************)
(* validate_shards                                                         *)
(***************************************************************************)
\* the positions whose file name carries another shard number than the
\* position
OutOfPlace(files) ==
    {i \in 1..Len(files) :
        SearchMatches(files[i].name) /\ SearchShardNum(files[i].name) # i}

\* the positions of the LFS pointers
Pointers(files) == {i \in 1..Len(files) : IsLfsPointer(files[i])}

Least(S) == CHOOSE i \in S : \A j \in S : i <= j

\* validate_shards with the numbering checked before the count
ValidateShardsSeqFirst(files, total) ==
    IF OutOfPlace(files) # {}
    THEN LET i == Least(OutOfPlace(files)) IN
         [ok |-> FALSE, msg |-> Msg("nonsequential", i, SearchShardNum(files[i].name), <<>>)]
    ELSE IF Len(files) # total
    THEN [ok |-> FALSE, msg |-> Msg("missing", Len(files), total, <<>>)]
    ELSE IF Pointers(files) # {}
    THEN [ok |-> FALSE, msg |-> Msg("lfs", 0, 0, files[Least(Pointers(files))].name)]
    ELSE [ok |-> TRUE, msg |-> Msg("none", 0, 0, <<>>)]

\* validate_shards without the check of the numbering
ValidateShardsNoSeq(files, total) ==
    IF Len(files) # total
    THEN [ok |-> FALSE, msg |-> Msg("missing", Len(files), total, <<>>)]
    ELSE IF Pointers(files) # {}
    THEN [ok |-> FALSE, msg |-> Msg("lfs", 0, 0, files[Least(Pointers(files))].name)]
    ELSE [ok |-> TRUE, msg |-> Msg("none", 0, 0, <<>>)]

\* validate_shards(shard_files, total_expected): (success, error_message)
ValidateShards(files, total) ==
    IF Len(files) # total
    THEN [ok |-> FALSE, msg |-> Msg("missing", Len(files), total, <<>>)]
    ELSE IF OutOfPlace(files) # {}
    THEN LET i == Least(OutOfPlace(files)) IN
         [ok |-> FALSE, msg |-> Msg("nonsequential", i, SearchShardNum(files[i].name), <<>>)]
    ELSE IF Pointers(files) # {}
    THEN [ok |-> FALSE, msg |-> Msg("lfs", 0, 0, files[Least(Pointers(files))].name)]
    ELSE [ok |-> TRUE, msg |-> Msg("none", 0, 0, <<>>)]

\* the files validate_shards hands to is_lfs_pointer: none unless the count
\* and the numbering pass, then the list up to its first pointer
LfsChecked(files, total) ==
    LET Call(f) == [file |-> f, flagged |-> IsLfsPointer(f)] IN
    IF Len(files) # total \/ OutOfPlace(files) # {} THEN {}
    ELSE IF Pointers(files) = {} THEN {Call(files[i]) : i \in 1..Len(files)}
    ELSE {Call(files[i]) : i \in 1..Least(Pointers(files))}


(***************************************************************************)
(* merge_safetensor_files                                                  *)
(***************************************************************************)
TensorNames == {"a", "b"}

\* sf_tsr.get_tensor(layer): the bytes file f stores for the tensor
GetTensor(f, layer) == [src |-> f.name, layer |-> layer]

\* sf_tsr.metadata(): None when the container has no metadata block
Metadata(f) == IF f.hasMeta THEN Some([src |-> f.name]) ELSE None

\* the loop body with a name already in the table left alone
LoadShardKeepFirst(table, f) ==
    table \cup {[name |-> n, value |-> GetTensor(f, n)] :
                    n \in {m \in f.keys : \A e \in table : e.name # m}}

\* the loop body with the table started afresh for every shard
LoadShardReplace(table, f) == {[name |-> n, value |-> GetTensor(f, n)] : n \in f.keys}

\* tensors[str(layer)] = tensor, for every layer of the shard
LoadShard(table, f) ==
    {e \in table : e.name \notin f.keys}
        \cup {[name |-> n, value |-> GetTensor(f, n)] : n \in f.keys}

\* if metadata is None: metadata = sf_tsr.metadata()
CaptureMetadata(metadata, f) == IF metadata = None THEN Metadata(f) ELSE metadata

(***************************************************************************)
(* The state of one run of merge_model_shards.                             *)
(***************************************************************************)
VARIABLES
    folderKind,     \* what the path names: "dir", "file" or "missing"
    dir,            \* the folder's entries (shards are never written)
    merged,         \* the merged subfolder: whether it exists, and its files
    pc,             \* where the run is
    shard_files,    \* get_split_files' list
    total_expected, \* get_split_files' total
    printed,        \* the error messages printed so far
    result,         \* merge_model_shards' return value, None while running
    scan_order,     \* the order in which glob enumerated the entries
    lfsCalls,       \* the calls of is_lfs_pointer: the file and the answer
    tensors,        \* merge_safetensor_files' table
    metadata,       \* merge_safetensor_files' metadata
    idx,            \* the position of the next shard of the merge loop
    opened,         \* the shards safe_open has opened
    saved           \* what save_file was called with, None before

vars == <<folderKind, dir, merged, pc, shard_files, total_expected, printed,
          result, scan_order, lfsCalls, tensors, metadata, idx, opened, saved>>

(***************************************************************************)
(* The folders a run starts from.                                          *)
(***************************************************************************)
Canon(i, t, wi, wt) ==
    <<Lit("model-"), Digits(i, wi), Lit("-of-"), Digits(t, wt), Lit(".safetensors")>>

\* real shard data: more than 200 bytes, and not text
BinaryToks == <<"BLOCK", "BLOCK", "TXT", "BAD">>
\* version https://git-lfs.github.com/spec/v1 (newline) oid ...
PointerToks == <<"TXT", "MARK", "NL", "TXT">>

Shard(name, keys, hasMeta) == MkFile(name, BinaryToks, TRUE, TRUE, keys, hasMeta)
Pointer(name) == MkFile(name, PointerToks, TRUE, FALSE, {}, FALSE)

RECURSIVE SubsetsUpTo(_, _)
SubsetsUpTo(S, k) ==
    IF k = 0 THEN {{}}
    ELSE LET R == SubsetsUpTo(S, k - 1) IN R \cup {T \cup {x} : T \in R, x \in S}

\* model-<i>-of-<t>.safetensors with both numbers 5 digits wide, the shard
\* number in and out of the range 1..t, two declared totals
CanonNames ==
    {Canon(i, t, 5, 5) : i \in 0..(MaxTotal + 1), t \in {MaxTotal - 1, MaxTotal}}

\* other forms of name: narrower and wider numbers, text between the
\* pattern and the extension, text before the pattern, another extension,
\* no shard number
VariantNames ==
    UNION {{Canon(i, t, 5, 5),
            Canon(i, t, 1, 1),
            Canon(i, t, 6, 6),
            Canon(i, t, 5, 5) \o <<Lit(".bak"), Lit(".safetensors")>>,
            <<Lit("x")>> \o Canon(i, t, 5, 5),
            <<Lit("model-"), Digits(i, 5), Lit("-of-"), Digits(t, 5), Lit(".bin")>>,
            <<Lit("model-"), Lit("-of-"), Digits(t, 5), Lit(".safetensors")>>}
           : i \in 1..MaxVar, t \in {MaxVar}}

Texts == UNION {[1..k -> ByteToks] : k \in 0..MaxToks}

InitCanonDirs ==
    SubsetsUpTo({Shard(n, {"a"}, TRUE) : n \in CanonNames}, MaxFiles)

InitVariantDirs ==
    SubsetsUpTo({Shard(n, {"a"}, TRUE) : n \in VariantNames}, MaxVar)

\* complete shard sets whose containers vary, in their tensor names or in
\* having a metadata block
InitMergeDirs ==
    UNION {{{Shard(Canon(i, t, 5, 5), k[i], TRUE) : i \in 1..t}
                : k \in [1..t -> SUBSET TensorNames]}
           \cup {{Shard(Canon(i, t, 5, 5), {"a"}, m[i]) : i \in 1..t}
                : m \in [1..t -> BOOLEAN]}
           : t \in 1..MaxTotal}

\* complete shard sets some of whose files are LFS pointers
InitPointerDirs ==
    UNION {{{IF p[i] THEN Pointer(Canon(i, t, 5, 5))
                     ELSE Shard(Canon(i, t, 5, 5), {"a"}, TRUE) : i \in 1..t}
             : p \in [1..t -> BOOLEAN]}
           : t \in 1..MaxTotal}

\* one file of any small text, readable or not
InitTextDirs ==
    {{MkFile(Canon(1, 1, 5, 5), toks, r, FALSE, {}, FALSE)} :
        toks \in Texts, r \in BOOLEAN}

NoMerged == [exists |-> FALSE, files |-> {}]
\* the output of a prior run
PriorMerged == [exists |-> TRUE, files |-> {[name |-> "output", whole |-> TRUE]}]

Init ==
    /\ \/ /\ folderKind = "dir"
          /\ dir \in InitCanonDirs \cup InitVariantDirs \cup InitMergeDirs
                        \cup InitPointerDirs \cup InitTextDirs
       \/ /\ folderKind \in {"file", "missing"}
          /\ dir = {}
    /\ merged \in IF folderKind = "dir" THEN {NoMerged, PriorMerged} ELSE {NoMerged}
    /\ pc = "start"
    /\ shard_files = <<>>
    /\ total_expected = None
    /\ printed = <<>>
    /\ result = None
    /\ scan_order = <<>>
    /\ lfsCalls = {}
    /\ tensors = {}
    /\ metadata = None
    /\ idx = 1
    /\ opened = <<>>
    /\ saved = None

(***************************************************************************)
(* merge_model_shards, step by step.                                       *)
(***************************************************************************)
\* return False after printing msg
Fail(msg) ==
    /\ printed' = Append(printed, msg)
    /\ result' = Some(FALSE)
    /\ pc' = "done"

\* the enumerations of the folder's entries
Orders(S) ==
    {o \in [1..Cardinality(S) -> S] : \A i, j \in 1..Cardinality(S) : o[i] = o[j] => i = j}

\* folder.exists(), folder.is_dir()
CheckFolder ==
    /\ pc = "start"
    /\ IF folderKind = "missing" THEN Fail(Msg("notfound", 0, 0, <<>>))
       ELSE IF folderKind = "file" THEN Fail(Msg("notdir", 0, 0, <<>>))
       ELSE pc' = "discover" /\ UNCHANGED <<printed, result>>
    /\ UNCHANGED <<folderKind, dir, merged, shard_files, total_expected, scan_order,
                   lfsCalls, tensors, metadata, idx, opened, saved>>

\* shard_files, total_expected = get_split_files(folder); if not shard_files
Discover ==
    /\ pc = "discover"
    /\ \E order \in Orders(dir) :
          LET r == GetSplitFiles(order) IN
          /\ scan_order' = order
          /\ IF r.files = <<>>
             THEN /\ printed' = printed \o r.printed \o <<Msg("nofiles", 0, 0, <<>>)>>
                  /\ result' = Some(FALSE)
                  /\ pc' = "done"
                  /\ UNCHANGED <<shard_files, total_expected>>
             ELSE /\ shard_files' = r.files
                  /\ total_expected' = r.total
                  /\ pc' = "validate"
                  /\ UNCHANGED <<printed, result>>
    /\ UNCHANGED <<folderKind, dir, merged, lfsCalls, tensors, metadata, idx,
                   opened, saved>>

\* the validation step with the merged folder removed and created first
ValidateAfterMkdir ==
    /\ pc = "validate"
    /\ merged' = [exists |-> TRUE, files |-> {}]
    /\ LET v == ValidateShards(shard_files, total_expected[1]) IN
       IF v.ok THEN pc' = "prepare" /\ UNCHANGED <<printed, result>>
       ELSE Fail(v.msg)
    /\ lfsCalls' = LfsChecked(shard_files, total_expected[1])
    /\ UNCHANGED <<folderKind, dir, shard_files, total_expected, scan_order,
                   tensors, metadata, idx, opened, saved>>

\* valid, error_msg = validate_shards(shard_files, total_expected)
Validate ==
    /\ pc = "validate"
    /\ LET v == ValidateShards(shard_files, total_expected[1]) IN
       IF v.ok THEN pc' = "prepare" /\ UNCHANGED <<printed, result>>
       ELSE Fail(v.msg)
    /\ lfsCalls' = LfsChecked(shard_files, total_expected[1])
    /\ UNCHANGED <<folderKind, dir, merged, shard_files, total_expected, scan_order,
                   tensors, metadata, idx, opened, saved>>

\* shutil.rmtree(merged_folder) if it exists; merged_folder.mkdir()
PrepareFolder == [exists |-> TRUE, files |-> {}]

Prepare ==
    /\ pc = "prepare"
    /\ merged' = PrepareFolder
    /\ pc' = "merge"
    /\ UNCHANGED <<folderKind, dir, shard_files, total_expected, printed, result,
                   scan_order, lfsCalls, tensors, metadata, idx, opened, saved>>

\* one turn of the loop of merge_safetensor_files; safe_open raises on a
\* file that is no container, which merge_model_shards catches
MergeShard ==
    /\ pc = "merge"
    /\ idx <= Len(shard_files)
    /\ LET f == shard_files[idx] IN
       IF ~f.container
       THEN /\ Fail(Msg("mergefailed", 0, 0, f.name))
            /\ UNCHANGED <<tensors, metadata, idx, opened>>
       ELSE /\ opened' = Append(opened, f)
            /\ metadata' = CaptureMetadata(metadata, f)
            /\ tensors' = LoadShard(tensors, f)
            /\ idx' = idx + 1
            /\ UNCHANGED <<pc, printed, result>>
    /\ UNCHANGED <<folderKind, dir, merged, shard_files, total_expected, scan_order,
                   lfsCalls, saved>>

\* what is left at the output path when save_file raises once bytes are
\* written, merge_model_shards having caught the exception
AfterFailedWrite == merged.files \cup {[name |-> "output", whole |-> FALSE]}

\* save_file(tensors, output_file, metadata) and what follows: the writer
\* succeeds, fails before it creates the file, or fails part way
SaveFile ==
    /\ pc = "merge"
    /\ idx > Len(shard_files)
    /\ saved' = Some([tensors |-> tensors, metadata |-> metadata])
    /\ \E outcome \in {"written", "nofile", "partial"} :
          CASE outcome = "written" ->
                  /\ merged' = [merged EXCEPT !.files = {[name |-> "output", whole |-> TRUE]}]
                  /\ result' = Some(TRUE)
                  /\ pc' = "done"
                  /\ UNCHANGED printed
            [] outcome = "nofile" ->
                  /\ Fail(Msg("mergefailed", 0, 0, <<>>))
                  /\ UNCHANGED merged
            [] outcome = "partial" ->
                  /\ Fail(Msg("mergefailed", 0, 0, <<>>))
                  /\ merged' = [merged EXCEPT !.files = AfterFailedWrite]
    /\ UNCHANGED <<folderKind, dir, shard_files, total_expected, scan_order, lfsCalls,
                   tensors, metadata, idx, opened>>

Next == CheckFolder \/ Discover \/ Validate \/ Prepare \/ MergeShard \/ SaveFile

Spec == Init /\ [][Next]_vars


(***************************************************************************)
(* What the properties speak of.                                           *)
(***************************************************************************)
Range(q) == {q[i] : i \in 1..Len(q)}

\* the entries the scan takes for shards
Matched == {f \in dir : Glob(f.name) /\ PatternMatch(f.name)}

\* validate_shards has returned
ValidationRan == shard_files # <<>> /\ pc # "validate"

\* validate_shards has returned success
Passed == ValidationRan /\ (printed = <<>> \/ printed[1].kind = "mergefailed")

\* the run has finished discovery and validation and nothing after them
ChecksDone ==
    \/ pc = "prepare"
    \/ /\ pc = "done"
       /\ folderKind = "dir"
       /\ printed # <<>>
       /\ printed[Len(printed)].kind \in {"nofiles", "missing", "nonsequential", "lfs"}

\* glob enumerated two shards in another order than that of their numbers
EnumeratedOutOfOrder ==
    \E i, j \in 1..Len(scan_order) :
        /\ i < j
        /\ scan_order[i] \in Matched
        /\ scan_order[j] \in Matched
        /\ ShardNum(scan_order[i].name) > ShardNum(scan_order[j].name)

\* no tensor name is declared by two shards of the list
DisjointShards ==
    \A i, j \in 1..Len(shard_files) :
        i # j => shard_files[i].keys \cap shard_files[j].keys = {}

\* the shards of the list that declare tensor n
Declaring(n) == {f \in Range(shard_files) : n \in f.keys}

(***************************************************************************)
(* C1. Merge completeness: when the shards of the list hold pairwise       *)
(* disjoint tensor names, the table handed to save_file has exactly the    *)
(* names of all shards, one entry per name, each with the bytes of the     *)
(* shard that declares it.                                                 *)
(***************************************************************************)
C1_MergeCompleteness ==
    (saved # None /\ DisjointShards) =>
        LET table == saved[1].tensors
            declared == UNION {f.keys : f \in Range(shard_files)}
        IN  /\ {e.name : e \in table} = declared
            /\ Cardinality(table) = Cardinality(declared)
            /\ \A f \in Range(shard_files) : \A n \in f.keys :
                   [name |-> n, value |-> GetTensor(f, n)] \in table

\* two shards with different, non-empty tensor sets have been merged and saved
C1_Witness ==
    /\ saved # None
    /\ DisjointShards
    /\ \E i, j \in 1..Len(shard_files) :
          i # j /\ shard_files[i].keys # {} /\ shard_files[j].keys # {}

(***************************************************************************)
(* C2. Collision determinism: a tensor name that two or more shards of the *)
(* merged set declare has, in the table handed to save_file, the bytes of  *)
(* the declaring shard with the highest shard number, whatever the order   *)
(* in which glob enumerated the files.                                     *)
(***************************************************************************)
C2_CollisionDeterminism ==
    saved # None =>
        \A n \in TensorNames :
            Cardinality(Declaring(n)) >= 2 =>
                \E f \in Declaring(n) :
                    /\ \A g \in Declaring(n) : ShardNum(g.name) <= ShardNum(f.name)
                    /\ \E e \in saved[1].tensors : e.name = n
                    /\ \A e \in saved[1].tensors :
                           e.name = n => e.value = GetTensor(f, n)

\* a collision has been merged after an enumeration out of shard order
C2_Witness ==
    /\ saved # None
    /\ EnumeratedOutOfOrder
    /\ \E n \in TensorNames : Cardinality(Declaring(n)) >= 2

(***************************************************************************)
(* C3. Metadata retention: the metadata handed to save_file is that of the *)
(* first shard of the list, None when the first shard has no metadata      *)
(* block.                                                                  *)
(***************************************************************************)
C3_FirstShardMetadata ==
    saved # None => saved[1].metadata = Metadata(shard_files[1])

(***************************************************************************)
(* C4. ShardSet invariant: once get_split_files and validate_shards have   *)
(* succeeded, and so whenever merge_safetensor_files runs, the shard list  *)
(* is in ascending order of shard number, every member declares the same   *)
(* total, the length of the list is that total and the shard numbers are   *)
(* 1, 2, ..., total.                                                       *)
(***************************************************************************)
ShardSetOk(files, total) ==
    /\ total # None
    /\ Len(files) = total[1]
    /\ \A i \in 1..Len(files) :
          /\ TotalShards(files[i].name) = total[1]
          /\ ShardNum(files[i].name) = i
    /\ \A i, j \in 1..Len(files) :
          i < j => ShardNum(files[i].name) < ShardNum(files[j].name)

C4_ShardSetInvariant ==
    (Passed \/ pc \in {"prepare", "merge"} \/ opened # <<>> \/ saved # None) =>
        /\ ShardSetOk(shard_files, total_expected)
        /\ Len(opened) <= Len(shard_files)
        /\ \A i \in 1..Len(opened) : opened[i] = shard_files[i]

\* a set of several shards, enumerated out of order, has passed validation
C4_Witness == Passed /\ Len(shard_files) >= 2 /\ EnumeratedOutOfOrder

(***************************************************************************)
(* C5. Sequentiality gate: validation first compares the number of matched *)
(* files with the declared total and fails with the missing-shards message *)
(* citing both; with the right count it fails with the non-sequential      *)
(* message citing the first position whose shard number differs from it;   *)
(* a complete set passes both checks in whatever order it was enumerated,  *)
(* and validation succeeds unless a shard is an LFS pointer.               *)
(***************************************************************************)
C5_SequentialityGate ==
    ValidationRan =>
        LET n == Len(shard_files)
            total == total_expected[1]
            Num(i) == ShardNum(shard_files[i].name)
            wrong == {i \in 1..n : Num(i) # i}
        IN  /\ n = Cardinality(Matched)
            /\ n # total =>
                  /\ printed = <<Msg("missing", n, total, <<>>)>>
                  /\ result = Some(FALSE)
            /\ (n = total /\ wrong # {}) =>
                  /\ printed = <<Msg("nonsequential", Least(wrong), Num(Least(wrong)), <<>>)>>
                  /\ result = Some(FALSE)
            /\ (n = total /\ wrong = {}) =>
                  /\ \A k \in 1..Len(printed) :
                        printed[k].kind \notin {"missing", "nonsequential"}
                  /\ (\A c \in lfsCalls : ~c.flagged) => Passed

\* a set with both a wrong count and a gap has been rejected for its count
C5_Witness ==
    /\ ValidationRan
    /\ Len(shard_files) # total_expected[1]
    /\ \E i \in 1..Len(shard_files) : ShardNum(shard_files[i].name) # i
    /\ printed # <<>>
    /\ printed[1].kind = "missing"

(***************************************************************************)
(* C6. Placeholder detection: is_lfs_pointer answers false for a file of   *)
(* more than 200 bytes, false when the file cannot be opened or decoded,   *)
(* true for a file of at most 200 bytes that decodes and whose first line  *)
(* contains the marker, and false for a file of at most 200 bytes whose    *)
(* first line does not contain it.                                         *)
(***************************************************************************)
MarkerInFirstLine(toks) ==
    \E k \in 1..Len(toks) :
        toks[k] = "MARK" /\ \A j \in 1..(k - 1) : toks[j] # "NL"

TextCheckFails(f) == ~f.readable \/ \E k \in 1..Len(f.toks) : f.toks[k] = "BAD"

C7_NoOutputAfterFailedWrite ==
    (pc = "done" /\ result = Some(FALSE) /\ saved # None) =>
        \A e \in merged.files : e.name # "output"

(***************************************************************************)
(* C8. Shard filename matching: every file of the shard list is named      *)
(* model-<index>-of-<total>.safetensors, whole name, with index and total  *)
(* of exactly 5 digits.                                                    *)
(***************************************************************************)
FiveDigitName(name) ==
    /\ Len(name) = 5
    /\ name = Canon(name[2].val, name[4].val, 5, 5)

C8_OnlyFiveDigitNames == \A f \in Range(shard_files) : FiveDigitName(f.name)

(***************************************************************************)
(* C9. Validation determinism: the outcome of discovery and validation,    *)
(* the shard list or the printed error with the values it cites, is the    *)
(* same for every order in which the folder's entries are enumerated.      *)
(***************************************************************************)
CheckOutcome(order) ==
    LET r == GetSplitFiles(order) IN
    IF r.files = <<>>
    THEN [files |-> <<>>, printed |-> r.printed \o <<Msg("nofiles", 0, 0, <<>>)>>]
    ELSE LET v == ValidateShards(r.files, r.total[1]) IN
         IF v.ok THEN [files |-> r.files, printed |-> <<>>]
         ELSE [files |-> <<>>, printed |-> <<v.msg>>]

C9_ValidationDeterminism ==
    ChecksDone =>
        \A order \in Orders(dir) :
            CheckOutcome(order) =
                [files |-> IF pc = "prepare" THEN shard_files ELSE <<>>,
                 printed |-> printed]

(***************************************************************************)
(* C10. Fail-fast ordering: a step that opens a shard for merging, calls   *)
(* save_file or changes the folder (its entries or the merged subfolder)   *)
(* is taken only after the path, discovery and validation checks have all  *)
(* passed; a run that ends at one of those checks has changed nothing.     *)
(***************************************************************************)
ChecksPassed ==
    /\ folderKind = "dir"
    /\ shard_files # <<>>
    /\ total_expected # None
    /\ ValidateShards(shard_files, total_expected[1]).ok

C10_FailFast ==
    /\ [][(merged' # merged \/ dir' # dir \/ opened' # opened \/ saved' # saved)
             => (pc \in {"prepare", "merge"} /\ ChecksPassed)]_vars
    /\ [][(pc \in {"start", "discover", "validate"} /\ pc' = "done")
             => (merged' = merged /\ dir' = dir /\ opened' = <<>> /\ saved' = None)]_vars
    /\ [](pc \in {"prepare", "merge"} => ChecksPassed)

\* a run has failed validation and the output of a prior run is still there
C10_Witness ==
    /\ pc = "done"
    /\ result = Some(FALSE)
    /\ merged = PriorMerged
    /\ printed # <<>>
    /\ printed[1].kind \in {"missing", "nonsequential", "lfs"}

=============================================================================
